---- MODULE Spec2Model ----
(***************************************************************************)
(* Model of src/p84-app.py: the whitelist login, the session expiry, the   *)
(* drawing search and the revision ordering of the "Desenhos P84" app.     *)
(*                                                                         *)
(* A Python str is a sequence of Unicode code points (integers).  A Python *)
(* value that may also be None or a float NaN (an empty spreadsheet cell)  *)
(* is a record [t, s]: t is "str", "None" or "nan" and s the characters.   *)
(***************************************************************************)
EXTENDS Integers, Sequences, FiniteSets, TLC

VARIABLES
    pc,           \* position of the pure-function harnesses: "start" / "done"
    valor,        \* normaliza_matricula: the argument
    normResult,   \* normaliza_matricula: the returned str
    m_input,      \* buscar_usuario_por_matricula: the raw identifier
    wlRaw,        \* the whitelist spreadsheet as downloaded (rows of cells)
    wl,           \* the DataFrame obter_whitelist() returned last
    wlFresh,      \* the st.cache_data entry of the whitelist is within its ttl
    user,         \* buscar_usuario_por_matricula: the returned dict or None
    session,      \* st.session_state: a function from the keys present
    now,          \* pd.Timestamp.utcnow(), in hours
    view,         \* what the last run rendered: "none", "login", "main"
    msg,          \* the st.error / st.warning / st.success of the last run
    wlConsulted,  \* obter_whitelist() was called in the last run
    lastEvent,    \* the widget event that triggered the last run
    lastInput,    \* the text of the Matricula field at the last submit
    revisoes,     \* the REVISAO cells of one drawing, in row order
    ordered,      \* ordenar_revisoes: [status, value]
    outcome,      \* main_app, one drawing: "shown", "no_revision", "exception"
    marked,       \* main_app: positions rendered with the latest-revision mark
    df,           \* the DESENHO column of the drawings sheet, in row order
    termo,        \* the search term typed
    resultados    \* buscar_desenho: [status, rows]

normVars == << valor, normResult >>
authVars == << m_input, user >>
sheetVars == << wlRaw, wl, wlFresh >>
appVars == << session, now, view, msg, wlConsulted, lastEvent, lastInput >>
revVars == << revisoes, ordered, outcome, marked >>
searchVars == << df, termo, resultados >>

vars == << pc, normVars, authVars, sheetVars, appVars, revVars, searchVars >>

----------------------------------------------------------------------------
(* Bounds of the model.                                                    *)

MaxRawLen == 6      \* longest argument of normaliza_matricula
MaxNow == 10        \* the clock stops advancing here (hours)
MaxFormLen == 2     \* longest text typed in the login form
MaxIdLen == 3       \* longest raw identifier looked up
MaxCells == 3       \* most REVISAO cells of one drawing
MaxRows == 2        \* most rows of the drawings sheet
MaxTermLen == 2     \* longest search term
MaxWlRows == 2      \* most rows of a whitelist sheet

----------------------------------------------------------------------------
(* Python values and character classes.                                    *)

Str(chars) == [t |-> "str", s |-> chars]
PyNone == [t |-> "None", s |-> << >>]
PyNaN == [t |-> "nan", s |-> << >>]

\* str(v): 'None' for None, 'nan' for a float NaN.
PyStr(v) ==
    CASE v.t = "str" -> v.s
      [] v.t = "None" -> << 78, 111, 110, 101 >>
      [] v.t = "nan" -> << 110, 97, 110 >>

\* The characters the regex class \d matches in a str pattern and int()
\* accepts: the Unicode decimal digits.  '0'-'9' and the Arabic-Indic digits
\* U+0660-U+0669 are the ones that occur in the model.
IsDecimal(c) == c \in 48..57 \/ c \in 1632..1641

DecimalValue(c) == IF c \in 48..57 THEN c - 48 ELSE c - 1632

\* str.isdigit() also accepts the digits that are not decimal: superscript
\* two, three and one (U+00B2, U+00B3, U+00B9).
IsDigitChar(c) == IsDecimal(c) \/ c \in {178, 179, 185}

\* str.isalpha(): the letters that occur in the model are ASCII.
IsAlphaChar(c) == c \in 65..90 \/ c \in 97..122

IsAsciiDigit(c) == c \in 48..57

\* All sequences over S of length 0..n.
SeqsUpTo(S, n) == UNION { [1..k -> S] : k \in 0..n }

\* What buscar_usuario_por_matricula returns: a dict, or None.
NoUser == [t |-> "None", matricula |-> << >>, nome |-> << >>, funcao |-> << >>]

\* The variables of each part of the program while another part is exercised.
IdleNorm == valor = PyNone /\ normResult = << >>
IdleAuth == m_input = << >> /\ user = NoUser
IdleSheet == wlRaw = << >> /\ wl = << >> /\ wlFresh = FALSE
IdleApp ==
    /\ session = << >> /\ now = 0 /\ view = "none" /\ msg = {}
    /\ wlConsulted = FALSE /\ lastEvent = "none" /\ lastInput = << >>
NoResult == [status |-> "none", value |-> << >>]
IdleRev == revisoes = << >> /\ ordered = NoResult /\ outcome = "none" /\ marked = {}
IdleSearch == df = << >> /\ termo = << >> /\ resultados = NoResult

----------------------------------------------------------------------------
(* normaliza_matricula                                                     *)

ReSubNonDigits(s) == SelectSeq(s, IsDecimal)

normaliza_matricula(v) ==
    IF v.t = "None" THEN << >>
    ELSE LET s == ReSubNonDigits(PyStr(v))
         IN  IF Len(s) = 0 \/ Len(s) > 5 THEN << >> ELSE s

\* '0', '7', 'a', '-', Arabic-Indic digit one
NormAlphabet == {48, 55, 97, 45, 1633}

NormInputs == {PyNone} \cup { Str(x) : x \in SeqsUpTo(NormAlphabet, MaxRawLen) }

InitNorm ==
    /\ pc = "start"
    /\ valor \in NormInputs
    /\ normResult = << >>
    /\ IdleAuth /\ IdleSheet /\ IdleApp /\ IdleRev /\ IdleSearch

Normalize ==
    /\ pc = "start"
    /\ normResult' = normaliza_matricula(valor)
    /\ pc' = "done"
    /\ UNCHANGED << valor, authVars, sheetVars, appVars, revVars, searchVars >>

NextNorm == Normalize

SpecNorm == InitNorm /\ [][NextNorm]_vars

\* The characters '0'-'9' of str(v), in their order.
AsciiDigitsOf(v) == IF v.t = "None" THEN << >> ELSE SelectSeq(PyStr(v), IsAsciiDigit)

\* C1: for every raw input, normaliza_matricula returns the empty marker when
\* the input holds zero or more than five ASCII digits 0-9, and otherwise
\* exactly the input's ASCII digits in their order, every other character
\* removed.

C1_NormalizeAsciiDigits ==
    pc = "done" =>
        normResult = IF Len(AsciiDigitsOf(valor)) \in 1..5
                     THEN AsciiDigitsOf(valor) ELSE << >>

----------------------------------------------------------------------------
(* carregar_whitelist_xlsx / carregar_whitelist_csv / obter_whitelist      *)

\* str.strip(), for the whitespace that occurs in the model (the space).
RECURSIVE LStrip(_)
LStrip(s) == IF s # << >> /\ Head(s) = 32 THEN LStrip(Tail(s)) ELSE s

RECURSIVE RStrip(_)
RStrip(s) ==
    IF s # << >> /\ s[Len(s)] = 32 THEN RStrip(SubSeq(s, 1, Len(s) - 1)) ELSE s

Strip(s) == RStrip(LStrip(s))

\* df["matricula"].apply(normaliza_matricula), then astype(str).str.strip()
\* on nome and funcao.
NormalizeRow(r) ==
    [matricula |-> normaliza_matricula(r.matricula),
     nome |-> Strip(PyStr(r.nome)),
     funcao |-> Strip(PyStr(r.funcao))]

RowHasMatricula(r) == r.matricula # << >>

\* df = df[df["matricula"] != ""]: the rows kept, in their order.
RECURSIVE MapNormalizeRow(_)
MapNormalizeRow(rows) ==
    IF rows = << >> THEN << >>
    ELSE << NormalizeRow(Head(rows)) >> \o MapNormalizeRow(Tail(rows))

carregar_whitelist(rows) == SelectSeq(MapNormalizeRow(rows), RowHasMatricula)

----------------------------------------------------------------------------
(* buscar_usuario_por_matricula                                            *)

\* int(s) of a str of decimal digits.
RECURSIVE PyInt(_)
PyInt(s) ==
    IF s = << >> THEN 0
    ELSE 10 * PyInt(SubSeq(s, 1, Len(s) - 1)) + DecimalValue(s[Len(s)])

\* wl.loc[wl["matricula"] == m]: the rows whose key is the str m.
RowsWithKey(frame, m) == SelectSeq(frame, LAMBDA r : r.matricula = m)

RowToDict(r) ==
    [t |-> "dict", matricula |-> r.matricula, nome |-> r.nome, funcao |-> r.funcao]

\* A lookup that compares the keys as numbers.
buscar_usuario_numeric(text, frame) ==
    LET m == normaliza_matricula(Str(text))
        row == SelectSeq(frame, LAMBDA r : PyInt(r.matricula) = PyInt(m))
    IN  IF m = << >> THEN NoUser
        ELSE IF row = << >> THEN NoUser
        ELSE RowToDict(row[1])

buscar_usuario_por_matricula(text, frame) ==
    LET m == normaliza_matricula(Str(text))
        row == RowsWithKey(frame, m)
    IN  IF m = << >> THEN NoUser
        ELSE IF row = << >> THEN NoUser
        ELSE RowToDict(row[1])

\* The rows a whitelist sheet may hold.  Names: "Ana", " Bia ", "Caio";
\* keys "7", "007", "0-7", "abc", an empty cell, and "7" a second time.
WlRowPool ==
    { [matricula |-> Str(<< 55 >>), nome |-> Str(<< 65, 110, 97 >>),
       funcao |-> Str(<< 69 >>)],
      [matricula |-> Str(<< 48, 48, 55 >>), nome |-> Str(<< 32, 66, 105, 97, 32 >>),
       funcao |-> Str(<< 73 >>)],
      [matricula |-> Str(<< 48, 45, 55 >>), nome |-> Str(<< 67, 97, 105, 111 >>),
       funcao |-> Str(<< 73, 32 >>)],
      [matricula |-> Str(<< 97, 98, 99 >>), nome |-> Str(<< 68 >>),
       funcao |-> Str(<< 69 >>)],
      [matricula |-> PyNaN, nome |-> Str(<< 70 >>), funcao |-> Str(<< 69 >>)],
      [matricula |-> Str(<< 55 >>), nome |-> Str(<< 71 >>), funcao |-> Str(<< 73 >>)] }

\* '0', '7', 'a', '-'
IdAlphabet == {48, 55, 97, 45}

InitAuth ==
    /\ pc = "start"
    /\ m_input \in SeqsUpTo(IdAlphabet, MaxIdLen)
    /\ wlRaw \in SeqsUpTo(WlRowPool, MaxWlRows)
    /\ wl = << >>
    /\ wlFresh = FALSE
    /\ user = NoUser
    /\ IdleNorm /\ IdleApp /\ IdleRev /\ IdleSearch

LoadWhitelist ==
    /\ pc = "start"
    /\ wl' = carregar_whitelist(wlRaw)
    /\ wlFresh' = TRUE
    /\ pc' = "loaded"
    /\ UNCHANGED << normVars, authVars, wlRaw, appVars, revVars, searchVars >>

Lookup ==
    /\ pc = "loaded"
    /\ user' = buscar_usuario_por_matricula(m_input, wl)
    /\ pc' = "done"
    /\ UNCHANGED << normVars, m_input, sheetVars, appVars, revVars, searchVars >>

NextAuth == LoadWhitelist \/ Lookup

SpecAuth == InitAuth /\ [][NextAuth]_vars

\* C2: for every raw identifier whose normalized form is valid, the lookup
\* returns an entry of the whitelist if and only if some entry's key is the
\* very same string as the normalized identifier, the entry returned carries
\* that key, and None is returned otherwise ("007" does not match key "7").
C2_ExactKeyLookup ==
    (pc = "done" /\ normaliza_matricula(Str(m_input)) # << >>) =>
        LET m == normaliza_matricula(Str(m_input))
        IN  /\ (user.t = "dict") <=> (\E i \in DOMAIN wl : wl[i].matricula = m)
            /\ user.t = "dict" =>
                   /\ user.matricula = m
                   /\ \E i \in DOMAIN wl : RowToDict(wl[i]) = user
            /\ user.t # "dict" => user = NoUser

\* "007" is looked up in a whitelist whose only key is "7": not found.
C2_Witness ==
    /\ pc = "done"
    /\ m_input = << 48, 48, 55 >>
    /\ Len(wl) = 1 /\ wl[1].matricula = << 55 >>
    /\ user = NoUser

----------------------------------------------------------------------------
(* st.session_state, require_auth, login_view, top_bar, main_app, run      *)

SESSION_TTL_HOURS == 8

Get(s, k, default) == IF k \in DOMAIN s THEN s[k] ELSE default

\* for k in keys: st.session_state.pop(k, None)
Pop(s, keys) == [k \in DOMAIN s \ keys |-> s[k]]

\* st.session_state.update(u)
Update(s, u) ==
    [k \in DOMAIN s \cup DOMAIN u |-> IF k \in DOMAIN u THEN u[k] ELSE s[k]]

ExpiryKeys == {"authenticated", "login_time", "matricula", "nome", "funcao"}

LogoutKeys ==
    {"authenticated", "matricula", "nome", "funcao", "login_time", "welcome_open"}

\* An expiry check that restarts the clock of a session still valid.
require_auth_sliding(s, t) ==
    LET authenticated == Get(s, "authenticated", FALSE)
    IN  IF authenticated /\ "login_time" \in DOMAIN s
        THEN IF t - s["login_time"] > SESSION_TTL_HOURS
             THEN [ret |-> FALSE, sess |-> Pop(s, ExpiryKeys), msg |-> {"expired"}]
             ELSE [ret |-> TRUE, sess |-> Update(s, [login_time |-> t]), msg |-> {}]
        ELSE [ret |-> authenticated, sess |-> s, msg |-> {}]

\* An expiry that forgets to remove the user's data.
require_auth_keeps_user(s, t) ==
    LET authenticated == Get(s, "authenticated", FALSE)
    IN  IF authenticated /\ "login_time" \in DOMAIN s
        THEN IF t - s["login_time"] > SESSION_TTL_HOURS
             THEN [ret |-> FALSE, sess |-> Pop(s, {"authenticated", "login_time"}),
                   msg |-> {"expired"}]
             ELSE [ret |-> TRUE, sess |-> s, msg |-> {}]
        ELSE [ret |-> authenticated, sess |-> s, msg |-> {}]

\* A Timestamp is truthy, so "and login_time" asks whether the key is set.
require_auth(s, t) ==
    LET authenticated == Get(s, "authenticated", FALSE)
    IN  IF authenticated /\ "login_time" \in DOMAIN s
        THEN IF t - s["login_time"] > SESSION_TTL_HOURS
             THEN [ret |-> FALSE, sess |-> Pop(s, ExpiryKeys), msg |-> {"expired"}]
             ELSE [ret |-> TRUE, sess |-> s, msg |-> {}]
        ELSE [ret |-> authenticated, sess |-> s, msg |-> {}]

\* re.fullmatch(r"\d{1,5}", text)
FullMatchDigits(text) ==
    /\ Len(text) \in 1..5
    /\ \A i \in 1..Len(text) : IsDecimal(text[i])

\* What one pass of the script leaves: the session, the view rendered, the
\* messages shown, whether the whitelist was loaded, whether safe_rerun() ran.
Pass(s, v, m, c, r) ==
    [sess |-> s, view |-> v, msg |-> m, consulted |-> c, rerun |-> r]

\* A login that signs in whoever submits a well-formed identifier.
login_view_no_check(s, ev, text, loadOk, frame, t) ==
    IF ev # "submit" THEN Pass(s, "login", {}, FALSE, FALSE)
    ELSE IF ~FullMatchDigits(text) THEN Pass(s, "login", {"invalid"}, FALSE, FALSE)
    ELSE IF ~loadOk THEN Pass(s, "login", {"wl_error"}, TRUE, FALSE)
    ELSE Pass(Update(s, [authenticated |-> TRUE, matricula |-> text,
                         nome |-> << >>, funcao |-> << >>,
                         login_time |-> t, welcome_open |-> TRUE]),
              "login", {}, TRUE, TRUE)

\* A login that validates the form text with normaliza_matricula.
login_view_normalizes(s, ev, text, loadOk, frame, t) ==
    IF ev # "submit" THEN Pass(s, "login", {}, FALSE, FALSE)
    ELSE IF normaliza_matricula(Str(text)) = << >>
    THEN Pass(s, "login", {"invalid"}, FALSE, FALSE)
    ELSE IF ~loadOk THEN Pass(s, "login", {"wl_error"}, TRUE, FALSE)
    ELSE LET u == buscar_usuario_por_matricula(text, frame)
         IN  IF u.t = "dict"
             THEN Pass(Update(s, [authenticated |-> TRUE, matricula |-> u.matricula,
                                  nome |-> u.nome, funcao |-> u.funcao,
                                  login_time |-> t, welcome_open |-> TRUE]),
                       "login", {}, TRUE, TRUE)
             ELSE Pass(s, "login", {"not_found"}, TRUE, FALSE)

\* ev = "submit": the form was submitted with `text` in the Matricula field.
\* loadOk: obter_whitelist() returned `frame` (it raises when the download
\* or the parsing fails).
login_view(s, ev, text, loadOk, frame, t) ==
    IF ev # "submit" THEN Pass(s, "login", {}, FALSE, FALSE)
    ELSE IF ~FullMatchDigits(text) THEN Pass(s, "login", {"invalid"}, FALSE, FALSE)
    ELSE IF ~loadOk THEN Pass(s, "login", {"wl_error"}, TRUE, FALSE)
    ELSE LET u == buscar_usuario_por_matricula(text, frame)
         IN  IF u.t = "dict"
             THEN Pass(Update(s, [authenticated |-> TRUE, matricula |-> u.matricula,
                                  nome |-> u.nome, funcao |-> u.funcao,
                                  login_time |-> t, welcome_open |-> TRUE]),
                       "login", {}, TRUE, TRUE)
             ELSE Pass(s, "login", {"not_found"}, TRUE, FALSE)

\* top_bar: the Sair button; render_welcome_overlay: the FECHAR button.
main_app(s, ev) ==
    IF ev = "sair" THEN Pass(Pop(s, LogoutKeys), "main", {"logged_out"}, FALSE, TRUE)
    ELSE IF Get(s, "welcome_open", FALSE) /\ ev = "fechar"
    THEN Pass(Update(s, [welcome_open |-> FALSE]), "main", {}, FALSE, TRUE)
    ELSE Pass(s, "main", {}, FALSE, FALSE)

\* run(): one pass of the script.
RunPass(s, ev, text, loadOk, frame, t) ==
    LET ra == require_auth(s, t)
    IN  IF ra.ret
        THEN main_app(ra.sess, ev)
        ELSE LET p == login_view(ra.sess, ev, text, loadOk, frame, t)
             IN  [p EXCEPT !.msg = ra.msg \cup p.msg]

\* One interaction: the pass the widget event triggers and, when that pass
\* ends in safe_rerun(), the pass that follows it with no event pending.
RunScript(s, ev, text, loadOk, frame, t) ==
    LET p1 == RunPass(s, ev, text, loadOk, frame, t)
        p2 == RunPass(p1.sess, "none", << >>, TRUE, frame, t)
    IN  IF p1.rerun
        THEN [p2 EXCEPT !.consulted = p1.consulted \/ p2.consulted]
        ELSE p1

\* obter_whitelist() under @st.cache_data(ttl=600): "hit" returns the frame
\* cached, "ok" downloads and parses the sheet published now, "fail" raises.
obter_whitelist(load, cached, raw) ==
    IF load = "hit" THEN cached ELSE carregar_whitelist(raw)

\* The sheets the whitelist URL serves over time.  The first: "7" Ana,
\* "7-7" Caio, "abc" D, "7" G, Arabic-Indic "1" H.  The second: "7" Bia.
AppWhitelists ==
    { << [matricula |-> Str(<< 55 >>), nome |-> Str(<< 65, 110, 97 >>),
          funcao |-> Str(<< 69 >>)],
         [matricula |-> Str(<< 55, 45, 55 >>),
          nome |-> Str(<< 32, 67, 97, 105, 111 >>), funcao |-> Str(<< 73 >>)],
         [matricula |-> Str(<< 97, 98, 99 >>), nome |-> Str(<< 68 >>),
          funcao |-> Str(<< 69 >>)],
         [matricula |-> Str(<< 55 >>), nome |-> Str(<< 71 >>),
          funcao |-> Str(<< 73 >>)],
         [matricula |-> Str(<< 1633 >>), nome |-> Str(<< 72 >>),
          funcao |-> Str(<< 69 >>)] >>,
      << [matricula |-> Str(<< 55 >>), nome |-> Str(<< 66, 105, 97 >>),
          funcao |-> Str(<< 73 >>)] >> }

\* '7', 'a', Arabic-Indic digit one
FormAlphabet == {55, 97, 1633}

Init ==
    /\ pc = "app"
    /\ wlRaw \in AppWhitelists
    /\ wl = << >>
    /\ wlFresh = FALSE
    /\ session = << >>
    /\ now = 0
    /\ view = "none"
    /\ msg = {}
    /\ wlConsulted = FALSE
    /\ lastEvent = "none"
    /\ lastInput = << >>
    /\ IdleNorm /\ IdleAuth /\ IdleRev /\ IdleSearch

StepRun(ev, text, load) ==
    LET frame == obter_whitelist(load, wl, wlRaw)
        p == RunScript(session, ev, text, load # "fail", frame, now)
    IN  /\ session' = p.sess
        /\ view' = p.view
        /\ msg' = p.msg
        /\ wlConsulted' = p.consulted
        /\ wl' = IF p.consulted /\ load # "fail" THEN frame ELSE wl
        /\ wlFresh' = IF p.consulted /\ load = "ok" THEN TRUE ELSE wlFresh
        /\ lastEvent' = ev
        /\ lastInput' = text
        /\ UNCHANGED << pc, normVars, authVars, wlRaw, now, revVars, searchVars >>

\* The wall clock advances between interactions, past the ttl of the cache.
Tick ==
    /\ pc = "app"
    /\ now < MaxNow
    /\ now' = now + 1
    /\ wlFresh' = FALSE
    /\ UNCHANGED << pc, normVars, authVars, wlRaw, wl, session, view, msg,
                    wlConsulted, lastEvent, lastInput, revVars, searchVars >>

\* Another whitelist sheet is published at the URL.
PublishWhitelist ==
    /\ pc = "app"
    /\ wlRaw' \in AppWhitelists \ {wlRaw}
    /\ UNCHANGED << pc, normVars, authVars, wl, wlFresh, appVars, revVars,
                    searchVars >>

\* The page is opened, or a widget other than a button changes.
Rerun ==
    /\ pc = "app"
    /\ StepRun("none", << >>, "ok")

\* The login form rendered by the last run is submitted.
SubmitLogin ==
    /\ pc = "app"
    /\ view = "login"
    /\ \E text \in SeqsUpTo(FormAlphabet, MaxFormLen), load \in {"hit", "ok", "fail"} :
           /\ load = "hit" => wlFresh
           /\ StepRun("submit", text, load)

\* The Sair button rendered by the last run is clicked.
ClickSair ==
    /\ pc = "app"
    /\ view = "main"
    /\ StepRun("sair", << >>, "ok")

\* The FECHAR button of the overlay rendered by the last run is clicked.
ClickFechar ==
    /\ pc = "app"
    /\ view = "main"
    /\ Get(session, "welcome_open", FALSE)
    /\ StepRun("fechar", << >>, "ok")

Next ==
    Tick \/ PublishWhitelist \/ Rerun \/ SubmitLogin \/ ClickSair \/ ClickFechar

Spec == Init /\ [][Next]_vars

Authenticated(s) == Get(s, "authenticated", FALSE)

UserKeys == {"login_time", "matricula", "nome", "funcao"}

FailureMessages == {"invalid", "not_found", "wl_error"}

\* C3 as stated: a login attempt ends in the invalid-identifier outcome
\* exactly when normaliza_matricula of the form text is the empty marker; the
\* whitelist is then neither loaded nor consulted, and the outcome is not the
\* not-found one.
C3_InvalidIffNormalizeInvalid ==
    lastEvent = "submit" =>
        /\ ("invalid" \in msg) <=> (normaliza_matricula(Str(lastInput)) = << >>)
        /\ "invalid" \in msg => (~wlConsulted /\ "not_found" \notin msg)

\* C3 as amended: a login attempt ends in the invalid-identifier outcome
\* exactly when the form text is not made of one to five decimal digits and
\* nothing else; every text normaliza_matricula rejects is among these; the
\* whitelist is then neither loaded nor consulted, nobody is signed in, and
\* the outcome is not the not-found one.
C3_InvalidIffNotAllDigits ==
    lastEvent = "submit" =>
        /\ ("invalid" \in msg) <=>
               ~(/\ Len(lastInput) \in 1..5
                 /\ \A i \in 1..Len(lastInput) : IsDecimal(lastInput[i]))
        /\ normaliza_matricula(Str(lastInput)) = << >> => "invalid" \in msg
        /\ "invalid" \in msg =>
               /\ ~wlConsulted
               /\ "not_found" \notin msg
               /\ ~Authenticated(session)
               /\ view = "login"

\* A text with a letter in it, which normaliza_matricula would accept, was
\* submitted and turned down without the whitelist being loaded.
C3_Witness ==
    /\ lastEvent = "submit"
    /\ normaliza_matricula(Str(lastInput)) # << >>
    /\ "invalid" \in msg
    /\ ~wlConsulted

\* A step is a run of the script when it moves neither the clock nor the sheet.
IsRun == now' = now /\ wlRaw' = wlRaw

\* C8: in every run of an authenticated session in which more than the TTL
\* has elapsed since login, authenticated, login_time, matricula, nome and
\* funcao are removed and the login view is rendered; and no step changes the
\* login_time of a session that stays authenticated.
C8_ExpiryFixedAtLogin ==
    [][ /\ (/\ IsRun
            /\ Authenticated(session)
            /\ "login_time" \in DOMAIN session
            /\ now - session["login_time"] > SESSION_TTL_HOURS)
           => (ExpiryKeys \cap DOMAIN session' = {} /\ view' = "login")
        /\ (Authenticated(session) /\ Authenticated(session'))
           => session'["login_time"] = session["login_time"]
      ]_vars

\* A session has just expired: the warning is shown with the login view.
C8_Witness ==
    /\ "expired" \in msg
    /\ view = "login"
    /\ ExpiryKeys \cap DOMAIN session = {}
    /\ now > SESSION_TTL_HOURS

\* C9: a run renders the protected app only for a session that is
\* authenticated, whose identifier is a key of the whitelist frame its login
\* obtained, and whose login is at most the TTL old; a run triggered by Sair ends on the login view with
\* nobody signed in; a login attempt that is told invalid, not found or
\* load error signs nobody in, and one that reaches the app submitted a key
\* of that frame.
C9_MainAppOnlyWhenAuthenticated ==
    [][ IsRun =>
          LET W == wl'
          IN  /\ view' = "main" =>
                     /\ Authenticated(session')
                     /\ now - session'["login_time"] <= SESSION_TTL_HOURS
                     /\ \E i \in DOMAIN W : W[i].matricula = session'["matricula"]
              /\ lastEvent' = "sair" =>
                     (view' = "login" /\ ~Authenticated(session'))
              /\ (lastEvent' = "submit" /\ msg' \cap FailureMessages # {}) =>
                     (view' = "login" /\ ~Authenticated(session'))
              /\ (lastEvent' = "submit" /\ view' = "main") =>
                     \E i \in DOMAIN W : W[i].matricula = lastInput'
      ]_vars

\* The app is rendered for a session exactly TTL hours old.
C9_Witness ==
    /\ view = "main"
    /\ lastEvent = "none"
    /\ Authenticated(session)
    /\ now - session["login_time"] = SESSION_TTL_HOURS

\* C10: while authenticated is set, login_time, matricula, nome and funcao
\* are set too and are those of the first row with the session's key in the
\* whitelist frame the login obtained; while authenticated is absent, none of the four is set.
C10_SessionKeysTogether ==
    LET W == wl
    IN  /\ "authenticated" \in DOMAIN session =>
               /\ session["authenticated"] = TRUE
               /\ UserKeys \subseteq DOMAIN session
               /\ session["login_time"] <= now
               /\ \E i \in DOMAIN W :
                      /\ W[i].matricula = session["matricula"]
                      /\ \A j \in 1..(i - 1) : W[j].matricula # session["matricula"]
                      /\ W[i].nome = session["nome"]
                      /\ W[i].funcao = session["funcao"]
        /\ "authenticated" \notin DOMAIN session => UserKeys \cap DOMAIN session = {}

\* "77" has signed in as Caio, the name stripped of its blanks.
C10_Witness ==
    /\ lastEvent = "submit"
    /\ Authenticated(session)
    /\ session["matricula"] = << 55, 55 >>
    /\ session["nome"] = << 67, 97, 105, 111 >>
    /\ view = "main"

----------------------------------------------------------------------------
(* ordenar_revisoes and the revisions block of main_app                    *)

\* str(r).isdigit() and str(r).isalpha(): false for the empty str.
IsDigitStr(s) == s # << >> /\ \A i \in 1..Len(s) : IsDigitChar(s[i])
IsAlphaStr(s) == s # << >> /\ \A i \in 1..Len(s) : IsAlphaChar(s[i])

\* int(r) raises ValueError unless every character is a decimal digit.
IntRaises(r) == \E i \in 1..Len(PyStr(r)) : ~IsDecimal(PyStr(r)[i])

\* a < b for two str: by code point, a proper prefix first.
RECURSIVE StrLess(_, _)
StrLess(a, b) ==
    IF b = << >> THEN FALSE
    ELSE IF a = << >> THEN TRUE
    ELSE IF Head(a) # Head(b) THEN Head(a) < Head(b)
    ELSE StrLess(Tail(a), Tail(b))

\* sorted() is stable: x goes before the first element greater than it.
RECURSIVE InsertByInt(_, _)
InsertByInt(x, s) ==
    IF s = << >> THEN << x >>
    ELSE IF PyInt(PyStr(x)) < PyInt(PyStr(Head(s))) THEN << x >> \o s
    ELSE << Head(s) >> \o InsertByInt(x, Tail(s))

RECURSIVE SortedByInt(_)
SortedByInt(s) ==
    IF s = << >> THEN << >>
    ELSE InsertByInt(s[Len(s)], SortedByInt(SubSeq(s, 1, Len(s) - 1)))

RECURSIVE InsertByStr(_, _)
InsertByStr(x, s) ==
    IF s = << >> THEN << x >>
    ELSE IF StrLess(x.s, Head(s).s) THEN << x >> \o s
    ELSE << Head(s) >> \o InsertByStr(x, Tail(s))

RECURSIVE SortedByStr(_)
SortedByStr(s) ==
    IF s = << >> THEN << >>
    ELSE InsertByStr(s[Len(s)], SortedByStr(SubSeq(s, 1, Len(s) - 1)))

\* sorted(letras): comparing a float NaN with a str raises TypeError; a list
\* of NaN alone compares floats, finds none smaller, and stays as it is.
LetrasMixed(letras) ==
    /\ \E i \in DOMAIN letras : letras[i].t = "nan"
    /\ \E i \in DOMAIN letras : letras[i].t = "str"

ordenar_revisoes(revs) ==
    LET numericas == SelectSeq(revs, LAMBDA r : IsDigitStr(PyStr(r)))
        letras == SelectSeq(revs, LAMBDA r : IsAlphaStr(PyStr(r)))
    IN  IF \E i \in DOMAIN numericas : IntRaises(numericas[i])
        THEN [status |-> "ValueError", value |-> << >>]
        ELSE IF LetrasMixed(letras)
        THEN [status |-> "TypeError", value |-> << >>]
        ELSE IF letras # << >> /\ letras[1].t = "nan"
        THEN [status |-> "ok", value |-> SortedByInt(numericas) \o letras]
        ELSE [status |-> "ok", value |-> SortedByInt(numericas) \o SortedByStr(letras)]

\* Series.drop_duplicates(): the first of each value stays; NaN equals NaN.
RECURSIVE drop_duplicates(_)
drop_duplicates(s) ==
    IF s = << >> THEN << >>
    ELSE LET init == SubSeq(s, 1, Len(s) - 1)
             last == s[Len(s)]
         IN  IF \E i \in DOMAIN init : init[i] = last
             THEN drop_duplicates(init)
             ELSE drop_duplicates(init) \o << last >>

\* rev == ultima_revisao: a float NaN is equal to nothing, itself included.
PyEq(a, b) == a.t = "str" /\ b.t = "str" /\ a.s = b.s

\* main_app, lines 354-377, for one drawing found.
RenderRevisoes(cells) ==
    LET o == ordenar_revisoes(drop_duplicates(cells))
    IN  IF o.status # "ok"
        THEN [ordered |-> o, outcome |-> "exception", marked |-> {}]
        ELSE IF Len(o.value) > 0
        THEN [ordered |-> o, outcome |-> "shown",
              marked |-> { i \in DOMAIN o.value : PyEq(o.value[i], o.value[Len(o.value)]) }]
        ELSE [ordered |-> o, outcome |-> "no_revision", marked |-> {}]

\* The cells a REVISAO column may hold: "1", "9", "10", "A", "B", "a", "A1",
\* "", "-", superscript two, and the NaN of an empty cell.
CellPool ==
    { Str(<< 49 >>), Str(<< 57 >>), Str(<< 49, 48 >>), Str(<< 65 >>), Str(<< 66 >>),
      Str(<< 97 >>), Str(<< 65, 49 >>), Str(<< >>), Str(<< 45 >>), Str(<< 178 >>),
      PyNaN }

InitRev ==
    /\ pc = "start"
    /\ revisoes \in SeqsUpTo(CellPool, MaxCells)
    /\ ordered = NoResult
    /\ outcome = "none"
    /\ marked = {}
    /\ IdleNorm /\ IdleAuth /\ IdleSheet /\ IdleApp /\ IdleSearch

OrderRevisions ==
    /\ pc = "start"
    /\ ordered' = ordenar_revisoes(revisoes)
    /\ pc' = "ordered"
    /\ UNCHANGED << normVars, authVars, sheetVars, appVars, revisoes, outcome,
                    marked, searchVars >>

RenderDrawing ==
    /\ pc = "start"
    /\ LET r == RenderRevisoes(revisoes)
       IN  /\ ordered' = r.ordered
           /\ outcome' = r.outcome
           /\ marked' = r.marked
    /\ pc' = "rendered"
    /\ UNCHANGED << normVars, authVars, sheetVars, appVars, revisoes, searchVars >>

NextRev == OrderRevisions \/ RenderDrawing

SpecRev == InitRev /\ [][NextRev]_vars

\* A numeric label is a str of decimal digits, an alphabetic one a str of
\* letters; neither is empty.
IsNumericLabel(v) ==
    v.t = "str" /\ v.s # << >> /\ \A i \in 1..Len(v.s) : IsDecimal(v.s[i])

IsAlphabeticLabel(v) ==
    v.t = "str" /\ v.s # << >> /\ \A i \in 1..Len(v.s) : IsAlphaChar(v.s[i])

Count(s, x) == Cardinality({ i \in DOMAIN s : s[i] = x })

\* C4: for every collection of labels, ordenar_revisoes returns a sequence
\* of numeric and alphabetic labels holding every such label of the input,
\* the numeric ones first in ascending integer value, then the alphabetic
\* ones in ascending code-point order.
C4_NumericThenAlphabetic ==
    pc = "ordered" =>
        LET v == ordered.value
        IN  /\ ordered.status = "ok"
            /\ \A i \in DOMAIN v : IsNumericLabel(v[i]) \/ IsAlphabeticLabel(v[i])
            /\ \A k \in DOMAIN revisoes :
                   (IsNumericLabel(revisoes[k]) \/ IsAlphabeticLabel(revisoes[k]))
                       => \E i \in DOMAIN v : v[i] = revisoes[k]
            /\ \A i, j \in DOMAIN v :
                   i < j =>
                       /\ ~(IsAlphabeticLabel(v[i]) /\ IsNumericLabel(v[j]))
                       /\ (IsNumericLabel(v[i]) /\ IsNumericLabel(v[j]))
                              => PyInt(v[i].s) <= PyInt(v[j].s)
                       /\ (IsAlphabeticLabel(v[i]) /\ IsAlphabeticLabel(v[j]))
                              => ~StrLess(v[j].s, v[i].s)

\* C5: for every input, ordenar_revisoes raises nothing, drops every cell
\* that is neither a numeric nor an alphabetic label (an empty cell too), and
\* returns every numeric or alphabetic label as many times as the input holds
\* it.
C5_MalformedDroppedSilently ==
    pc = "ordered" =>
        /\ ordered.status = "ok"
        /\ \A x \in CellPool :
               Count(ordered.value, x) =
                   IF IsNumericLabel(x) \/ IsAlphabeticLabel(x)
                   THEN Count(revisoes, x) ELSE 0

\* C6: for each drawing rendered, exactly the last revision of the ordered
\* sequence carries the latest-revision mark when the sequence is not empty,
\* and when it is empty nothing is marked and the no-revision notice is shown.
C6_LatestIsLastAndUnique ==
    pc = "rendered" =>
        /\ outcome # "exception"
        /\ Len(ordered.value) > 0 =>
               (outcome = "shown" /\ marked = {Len(ordered.value)})
        /\ Len(ordered.value) = 0 =>
               (outcome = "no_revision" /\ marked = {})

----------------------------------------------------------------------------
(* buscar_desenho                                                          *)

\* case=False: the letters that occur in the model fold as ASCII does.
Lower(c) == IF c \in 65..90 THEN c + 32 ELSE c

\* Series.str.contains(termo) takes termo as a regular expression
\* (regex=True is the default).  Of the characters that occur in the model,
\* '.' matches any character, '(' opens a group that nothing closes, so that
\* re.compile raises, and the others match themselves.
ReCompileRaises(pattern) == \E i \in DOMAIN pattern : pattern[i] = 40

ReMatchesAt(pattern, s, k) ==
    \A i \in DOMAIN pattern :
        pattern[i] = 46 \/ Lower(pattern[i]) = Lower(s[k + i])

ReSearch(pattern, s) ==
    \E k \in 0..(Len(s) - Len(pattern)) : ReMatchesAt(pattern, s, k)

buscar_desenho(frame, term) ==
    IF ReCompileRaises(term)
    THEN [status |-> "re.error", value |-> << >>]
    ELSE [status |-> "ok",
          value |-> SelectSeq(frame, LAMBDA row : ReSearch(term, PyStr(row.DESENHO)))]

\* The drawing names a sheet may hold: "a", "B", "aB", "a.", "-a", "".
NamePool ==
    { << 97 >>, << 66 >>, << 97, 66 >>, << 97, 46 >>, << 45, 97 >>, << >> }

RowPool == { [DESENHO |-> Str(n), row |-> k] : n \in NamePool, k \in 1..MaxRows }

\* 'a', 'b', '.', '('
TermAlphabet == {97, 98, 46, 40}

InitSearch ==
    /\ pc = "start"
    /\ df \in { f \in SeqsUpTo(RowPool, MaxRows) : \A i \in DOMAIN f : f[i].row = i }
    /\ termo \in SeqsUpTo(TermAlphabet, MaxTermLen) \ {<< >>}
    /\ resultados = NoResult
    /\ IdleNorm /\ IdleAuth /\ IdleSheet /\ IdleApp /\ IdleRev

Search ==
    /\ pc = "start"
    /\ resultados' = buscar_desenho(df, termo)
    /\ pc' = "done"
    /\ UNCHANGED << normVars, authVars, sheetVars, appVars, revVars, df, termo >>

NextSearch == Search

SpecSearch == InitSearch /\ [][NextSearch]_vars

ContainsLiteral(term, s) ==
    \E k \in 0..(Len(s) - Len(term)) :
        \A i \in DOMAIN term : Lower(term[i]) = Lower(s[k + i])

\* C7: for every non-empty term, buscar_desenho returns exactly the rows
\* whose DESENHO holds the term as a literal substring, letter case ignored,
\* in the order of the sheet.
C7_LiteralSubstringSearch ==
    pc = "done" =>
        /\ resultados.status = "ok"
        /\ resultados.value =
               SelectSeq(df, LAMBDA row : ContainsLiteral(termo, PyStr(row.DESENHO)))

====
